---- MODULE Spec2Model ----
(***************************************************************************)
(* Five-in-a-row (omok) board game of the repository: the click handler,   *)
(* stone placement, win detection from the placed stone and reset.         *)
(* The reaction-time test and the tree-diagram generator of script.js      *)
(* follow: each is a page of its own with its own state.                   *)
(***************************************************************************)
EXTENDS Integers, Sequences, FiniteSets, TLC

\* ---------------------------------------------------------------- constants
BOARD_SIZE == 15
GRID_SIZE == 600
CELL_SIZE == GRID_SIZE \div BOARD_SIZE
PADDING == CELL_SIZE \div 2

\* ------------------------------------------------------------------- bounds
\* Number of stones the modelled players place in one game of the
\* specification with the long lines.
MaxMoves == 11
\* Number of cells of the line pattern the win-check inputs are drawn from.
PatLen == 6
\* Length of the diagonal stretch clicked on in the specification with the
\* shorter row.
ShortDiag == 5

\* -------------------------------------------------------------------- state
VARIABLES board,          \* board[r][c]: 0 Empty, 1 Black, 2 White
          currentPlayer,  \* 1 Black, 2 White
          gameActive,     \* FALSE once a win has been detected
          modalHidden,    \* the winner modal carries the class 'hidden'
          turnText,       \* player named by the turn indicator
          returned,       \* what the handler that ran last returned to its caller
          lastEvent,      \* the handler that ran last
          query           \* last direct call of checkWin: <<r, c, player, result>>

\* the reaction-time test (script.js); its flag gameActive is rtGameActive here
VARIABLES currentRound,        \* round counter, 0 before the first game
          reactionTimes,       \* reaction times recorded in the current game
          startTime,           \* Date.now() when the target was last shown
          timerId,             \* handle of the last setTimeout, 0 for null
          rtGameActive,        \* gameActive of script.js
          screen,              \* the screen that carries the class 'active'
          targetDisplay,       \* targetBtn.style.display, "" while unset
          roundCounter,        \* roundCounter.innerText, "" while unset
          saveSectionDisplay,  \* saveScoreSection.style.display, "" while unset
          timers,              \* the browser's pending timeouts (their handles)
          now,                 \* the browser's clock, Date.now()
          storage,             \* localStorage item 'reactionLeaderboard': << >> or <<text>>
          allSaved             \* every score passed to saveScore so far, ascending

\* the tree-diagram generator (script.js)
VARIABLES menuInput,           \* content of the textarea
          svgContainer,        \* children of the SVG container
          alerted              \* generateTree's last run ended in its alert

omokVars == <<board, currentPlayer, gameActive, modalHidden, turnText, returned,
              lastEvent, query>>

reactionVars == <<currentRound, reactionTimes, startTime, timerId, rtGameActive, screen,
                  targetDisplay, roundCounter, saveSectionDisplay, timers, now, storage,
                  allSaved>>

treeVars == <<menuInput, svgContainer, alerted>>

vars == <<omokVars, reactionVars, treeVars>>

Idx == 0..(BOARD_SIZE - 1)

EmptyBoard == [r \in Idx |-> [c \in Idx |-> 0]]

\* --------------------------------------------------------- pure functions
isValid(r, c) == r >= 0 /\ r < BOARD_SIZE /\ c >= 0 /\ c < BOARD_SIZE

\* directions of checkWin: horizontal, vertical, diagonal, anti-diagonal
directions == << <<0, 1>>, <<1, 0>>, <<1, 1>>, <<1, -1>> >>

\* the forward loop of checkWin from step i on: stones counted before the break
RECURSIVE forwardCount(_, _, _, _, _, _, _)
forwardCount(b, r, c, dr, dc, player, i) ==
  IF i < 5 /\ isValid(r + dr * i, c + dc * i) /\ b[r + dr * i][c + dc * i] = player
    THEN 1 + forwardCount(b, r, c, dr, dc, player, i + 1)
    ELSE 0

\* (a win check that forgets the backward walk)
backwardCountNone(b, r, c, dr, dc, player, i) == 0

\* the backward loop of checkWin from step i on
RECURSIVE backwardCount(_, _, _, _, _, _, _)
backwardCount(b, r, c, dr, dc, player, i) ==
  IF i < 5 /\ isValid(r - dr * i, c - dc * i) /\ b[r - dr * i][c - dc * i] = player
    THEN 1 + backwardCount(b, r, c, dr, dc, player, i + 1)
    ELSE 0

\* count of one direction: the stone itself, then forward, then backward
lineCount(b, r, c, dr, dc, player) ==
  1 + forwardCount(b, r, c, dr, dc, player, 1)
    + backwardCount(b, r, c, dr, dc, player, 1)

\* (a count test with an exact-five restriction)
countWinsExact(count) == count = 5

\* (a count test that is one stone early)
countWinsFour(count) == count >= 4

\* the test on a direction's count that makes checkWin return true
countWins(count) == count >= 5

checkWin(b, r, c, player) ==
  \E d \in 1..Len(directions) :
     countWins(lineCount(b, r, c, directions[d][1], directions[d][2], player))

\* Math.round((p - PADDING) / CELL_SIZE) for an integer pixel offset p:
\* round(v) = floor(v + 1/2), halves go up
clickIndex(p) == (2 * (p - PADDING) + CELL_SIZE) \div (2 * CELL_SIZE)

\* --------------------------------------------------------------- operations
\* (a reset that keeps the turn where it was)
initBoardStateKeepPlayer ==
  /\ board' = EmptyBoard
  /\ currentPlayer' = currentPlayer
  /\ gameActive' = TRUE
  /\ turnText' = currentPlayer

\* initBoardState, with the updateTurnUI it ends with
initBoardState ==
  /\ board' = EmptyBoard
  /\ currentPlayer' = 1
  /\ gameActive' = TRUE
  /\ turnText' = 1

\* the reaction-time page once script.js has run init(): the declared state,
\* the start screen of the page as loaded, nothing stored yet
initReaction ==
  /\ currentRound = 0
  /\ reactionTimes = << >>
  /\ startTime = 0
  /\ timerId = 0
  /\ rtGameActive = FALSE
  /\ screen = "start"
  /\ targetDisplay = ""
  /\ roundCounter = ""
  /\ saveSectionDisplay = ""
  /\ timers = {}
  /\ now = 0
  /\ storage = << >>
  /\ allSaved = << >>

\* the tree page as loaded, before its first render: a textarea holding one
\* node without children, an empty container
initTree ==
  /\ menuInput = <<"node", << >> >>
  /\ svgContainer = << >>
  /\ alerted = FALSE

\* state after the script has run init(): initBoardState on the page as loaded
\* (modal hidden); init itself returns nothing
Init ==
  /\ board = EmptyBoard
  /\ currentPlayer = 1
  /\ gameActive = TRUE
  /\ turnText = 1
  /\ modalHidden = TRUE
  /\ returned = "undefined"
  /\ lastEvent = "init"
  /\ query = << >>
  /\ initReaction
  /\ initTree

\* endGame(winner): the winner text it writes is not part of the state
endGame(winner) ==
  /\ gameActive' = FALSE
  /\ modalHidden' = FALSE

\* (a placeStone that never passes the turn)
placeStoneNoToggle(r, c) ==
  LET nb == [board EXCEPT ![r][c] = currentPlayer] IN
  /\ board' = nb
  /\ IF checkWin(nb, r, c, currentPlayer)
       THEN /\ endGame(currentPlayer)
            /\ UNCHANGED <<currentPlayer, turnText>>
       ELSE UNCHANGED <<currentPlayer, turnText, gameActive, modalHidden>>

\* (a placeStone that writes the stone with row and column swapped)
placeStoneSwapped(r, c) ==
  LET nb == [board EXCEPT ![c][r] = currentPlayer] IN
  /\ board' = nb
  /\ IF checkWin(nb, c, r, currentPlayer)
       THEN /\ endGame(currentPlayer)
            /\ UNCHANGED <<currentPlayer, turnText>>
       ELSE /\ currentPlayer' = (IF currentPlayer = 1 THEN 2 ELSE 1)
            /\ turnText' = (IF currentPlayer = 1 THEN 2 ELSE 1)
            /\ UNCHANGED <<gameActive, modalHidden>>

\* (a placeStone that passes the turn after a winning stone too)
placeStoneToggleOnWin(r, c) ==
  LET nb == [board EXCEPT ![r][c] = currentPlayer] IN
  /\ board' = nb
  /\ currentPlayer' = (IF currentPlayer = 1 THEN 2 ELSE 1)
  /\ turnText' = (IF currentPlayer = 1 THEN 2 ELSE 1)
  /\ IF checkWin(nb, r, c, currentPlayer)
       THEN endGame(currentPlayer)
       ELSE UNCHANGED <<gameActive, modalHidden>>

\* (a placeStone that writes the stone of the player who is not to move)
placeStoneOther(r, c) ==
  LET mark == IF currentPlayer = 1 THEN 2 ELSE 1
      nb == [board EXCEPT ![r][c] = mark] IN
  /\ board' = nb
  /\ IF checkWin(nb, r, c, mark)
       THEN /\ endGame(mark)
            /\ UNCHANGED <<currentPlayer, turnText>>
       ELSE /\ currentPlayer' = (IF currentPlayer = 1 THEN 2 ELSE 1)
            /\ turnText' = (IF currentPlayer = 1 THEN 2 ELSE 1)
            /\ UNCHANGED <<gameActive, modalHidden>>

\* placeStone(r, c): write the stone, check the win from it, else pass the turn
placeStone(r, c) ==
  LET nb == [board EXCEPT ![r][c] = currentPlayer] IN
  /\ board' = nb
  /\ IF checkWin(nb, r, c, currentPlayer)
       THEN /\ endGame(currentPlayer)
            /\ UNCHANGED <<currentPlayer, turnText>>
       ELSE /\ currentPlayer' = (IF currentPlayer = 1 THEN 2 ELSE 1)
            /\ turnText' = (IF currentPlayer = 1 THEN 2 ELSE 1)
            /\ UNCHANGED <<gameActive, modalHidden>>

\* (early returns without the occupied check)
clickIgnoredNoOccupied(r, c) ==
  \/ ~gameActive
  \/ r < 0 \/ r >= BOARD_SIZE \/ c < 0 \/ c >= BOARD_SIZE

\* (early returns without the game-over check)
clickIgnoredNoActive(r, c) ==
  \/ r < 0 \/ r >= BOARD_SIZE \/ c < 0 \/ c >= BOARD_SIZE
  \/ board[r][c] # 0

\* the three early returns of handleClick
clickIgnored(r, c) ==
  \/ ~gameActive
  \/ r < 0 \/ r >= BOARD_SIZE \/ c < 0 \/ c >= BOARD_SIZE
  \/ board[r][c] # 0

\* handleClick for a click at pixel offset (x, y) from the canvas corner; every
\* path ends in a bare return
handleClick(x, y) ==
  LET c == clickIndex(x)
      r == clickIndex(y)
  IN /\ IF clickIgnored(r, c)
          THEN UNCHANGED <<board, currentPlayer, gameActive, modalHidden, turnText>>
          ELSE placeStone(r, c)
     /\ returned' = "undefined"
     /\ lastEvent' = "handleClick"
     /\ UNCHANGED <<query, reactionVars, treeVars>>

\* resetGame
resetGame ==
  /\ modalHidden' = TRUE
  /\ initBoardState
  /\ returned' = "undefined"
  /\ lastEvent' = "resetGame"
  /\ UNCHANGED <<query, reactionVars, treeVars>>

\* ------------------------------------------------------------------ inputs
\* intersections the modelled user aims at: six of row 7, six of the main
\* diagonal from the corner, and two points outside the grid
RowCells == { <<7, c>> : c \in 2..7 }
DiagCells == { <<i, i>> : i \in 0..5 }
OutsideCells == { <<-1, 3>>, <<7, BOARD_SIZE>> }
ClickCells == RowCells \cup DiagCells \cup OutsideCells

\* where in the pixel range of an intersection the click lands: its centre or
\* either end of the range that rounds to it
jitter(cell) ==
  LET k == (cell[1] + cell[2]) % 3
  IN IF k = 0 THEN 0 ELSE IF k = 1 THEN -(CELL_SIZE \div 2) ELSE (CELL_SIZE \div 2) - 1

\* click offsets (x, y) from the canvas corner
Clicks == { <<PADDING + cell[2] * CELL_SIZE + jitter(cell),
              PADDING + cell[1] * CELL_SIZE + jitter(cell)>> : cell \in ClickCells }

\* stones on the board: they lie on the intersections that are clicked on
placed(b) ==
  Cardinality({ cell \in ClickCells : isValid(cell[1], cell[2]) /\ b[cell[1]][cell[2]] # 0 })

\* a click of the modelled user: once MaxMoves stones are on the board only
\* clicks that the handler ignores still arrive
userClick(x, y, room) ==
  /\ IF clickIgnored(clickIndex(y), clickIndex(x)) THEN TRUE ELSE room
  /\ handleClick(x, y)

\* clicks and resets in any order
Next ==
  LET room == placed(board) < MaxMoves
  IN \/ \E clk \in Clicks : userClick(clk[1], clk[2], room)
     \/ resetGame

Spec == Init /\ [][Next]_vars

\* the same game clicked on a shorter row: the five of row 7 from column 3, the
\* diagonal from the corner, and the two points outside the grid
ShortCells ==
  { <<7, c>> : c \in 3..7 } \cup { <<i, i>> : i \in 0..(ShortDiag - 1) } \cup OutsideCells

ShortClicks == { <<PADDING + cell[2] * CELL_SIZE + jitter(cell),
                   PADDING + cell[1] * CELL_SIZE + jitter(cell)>> : cell \in ShortCells }

NextShort ==
  \/ \E clk \in ShortClicks : handleClick(clk[1], clk[2])
  \/ resetGame

SpecShort == Init /\ [][NextShort]_vars

\* ------------------------------------------- win check on drawn boards
\* boards with stones along one line: PatLen cells from an anchor in one of the
\* four directions, each Empty, Black or White; cells off the board are dropped
Anchors == { <<0, 0>>, <<5, 9>>, <<9, 14>> }

patternBoard(a, d, pat) ==
  [r \in Idx |-> [c \in Idx |->
     IF \E i \in 0..(PatLen - 1) :
          r = a[1] + i * directions[d][1] /\ c = a[2] + i * directions[d][2]
       THEN LET i == CHOOSE j \in 0..(PatLen - 1) :
                       r = a[1] + j * directions[d][1] /\ c = a[2] + j * directions[d][2]
            IN pat[i]
       ELSE 0]]

InitCheckWin ==
  /\ \E a \in Anchors, d \in 1..Len(directions), pat \in [0..(PatLen - 1) -> 0..2] :
        board = patternBoard(a, d, pat)
  /\ currentPlayer = 1
  /\ gameActive = TRUE
  /\ turnText = 1
  /\ modalHidden = TRUE
  /\ returned = "undefined"
  /\ lastEvent = "init"
  /\ query = << >>
  /\ initReaction
  /\ initTree

\* checkWin(r, c, player) called for a stone of the board
checkWinCall(r, c) ==
  /\ board[r][c] # 0
  /\ query' = <<r, c, board[r][c], checkWin(board, r, c, board[r][c])>>
  /\ UNCHANGED <<board, currentPlayer, gameActive, modalHidden, turnText, returned,
                 lastEvent, reactionVars, treeVars>>

NextCheckWin == \E r \in Idx, c \in Idx : checkWinCall(r, c)

SpecCheckWin == InitCheckWin /\ [][NextCheckWin]_vars

\* ------------------------------------------------ reaction-time test
MAX_ROUNDS == 10

\* the clock is followed up to MaxNow milliseconds
MaxNow == 1
\* number of handles the browser draws its timeout handles from
MaxTimers == 2
\* number of scores saved in one run of the page
MaxSaves == 2

TimerIds == 1..MaxTimers

\* the state the functions of the page read and write, as one value; the
\* writes that only fill in text of the result screen and of the leaderboard
\* lists (finalScoreEl, avgScoreEl, playerNameInput, the list markup) and the
\* random position of the target are not part of it
page ==
  [currentRound |-> currentRound, reactionTimes |-> reactionTimes,
   startTime |-> startTime, timerId |-> timerId, gameActive |-> rtGameActive,
   screen |-> screen, targetDisplay |-> targetDisplay, roundCounter |-> roundCounter,
   saveSectionDisplay |-> saveSectionDisplay, timers |-> timers, storage |-> storage]

\* the page's state after a handler has run to its end
becomes(s) ==
  /\ currentRound' = s.currentRound
  /\ reactionTimes' = s.reactionTimes
  /\ startTime' = s.startTime
  /\ timerId' = s.timerId
  /\ rtGameActive' = s.gameActive
  /\ screen' = s.screen
  /\ targetDisplay' = s.targetDisplay
  /\ roundCounter' = s.roundCounter
  /\ saveSectionDisplay' = s.saveSectionDisplay
  /\ timers' = s.timers
  /\ storage' = s.storage

showScreen(s, scr) == [s EXCEPT !.screen = scr]

updateHUD(s) == [s EXCEPT !.roundCounter = ToString(s.currentRound)]

\* (a setTimeout whose callback is never queued)
setTimeoutLost(s, id) == [s EXCEPT !.timerId = id]

\* setTimeout(...) answering the handle id, kept in timerId
setTimeout(s, id) == [s EXCEPT !.timerId = id, !.timers = @ \cup {id}]

\* clearTimeout(id): a handle that is not pending is ignored
clearTimeout(s, id) == [s EXCEPT !.timers = @ \ {id}]

finishGame(s) == showScreen([s EXCEPT !.saveSectionDisplay = "flex"], "result")

\* nextRound; id is the handle setTimeout answers when it is called
nextRound(s, id) ==
  IF s.currentRound >= MAX_ROUNDS
    THEN finishGame(s)
    ELSE LET s1 == updateHUD([s EXCEPT !.currentRound = @ + 1])
             s2 == [s1 EXCEPT !.gameActive = FALSE, !.targetDisplay = "none"]
         IN setTimeout(s2, id)

showTarget(s) ==
  [s EXCEPT !.gameActive = TRUE, !.targetDisplay = "block", !.startTime = now]

\* (a gameOver that leaves the flag alone)
gameOverKeepActive(s) == showScreen(clearTimeout(s, s.timerId), "gameover")

\* (a gameOver that does not cancel the timeout)
gameOverNoClear(s) == showScreen([s EXCEPT !.gameActive = FALSE], "gameover")

gameOver(s) ==
  showScreen([clearTimeout(s, s.timerId) EXCEPT !.gameActive = FALSE], "gameover")

\* (the lenient rule: a click beside the target counts only once it is shown)
handleInputLenient(s, target, id) ==
  IF target = "target-btn"
    THEN IF ~s.gameActive
           THEN s
           ELSE LET s1 == [s EXCEPT !.reactionTimes = Append(@, now - s.startTime)]
                    s2 == [s1 EXCEPT !.targetDisplay = "none", !.gameActive = FALSE]
                IN nextRound(s2, id)
    ELSE IF s.gameActive THEN gameOver(s) ELSE s

\* handleInput(e) for e.target.id = target
handleInput(s, target, id) ==
  IF target = "target-btn"
    THEN IF ~s.gameActive
           THEN s
           ELSE LET s1 == [s EXCEPT !.reactionTimes = Append(@, now - s.startTime)]
                    s2 == [s1 EXCEPT !.targetDisplay = "none", !.gameActive = FALSE]
                IN nextRound(s2, id)
    ELSE gameOver(s)

\* (a startGame that keeps the times of the game before)
startGameKeepTimes(s, id) ==
  LET s1 == [s EXCEPT !.currentRound = 0]
  IN nextRound(updateHUD(showScreen(s1, "game")), id)

startGame(s, id) ==
  LET s1 == [s EXCEPT !.currentRound = 0, !.reactionTimes = << >>]
  IN nextRound(updateHUD(showScreen(s1, "game")), id)

\* resetGame of script.js
rtResetGame(s) == showScreen(s, "start")

\* ---- leaderboard
\* new Date().toLocaleDateString()
today == "today"

\* JSON text of a history: per entry its three values in key order
stringify(history) ==
  [i \in 1..Len(history) |-> <<history[i].name, history[i].score, history[i].date>>]

\* JSON.parse(localStorage.getItem('reactionLeaderboard') || '[]')
parseStored(item) ==
  IF item = << >>
    THEN << >>
    ELSE [i \in 1..Len(item[1]) |->
            [name |-> item[1][i][1], score |-> item[1][i][2], date |-> item[1][i][3]]]

\* where sort puts an entry pushed behind a sorted list: behind the entries it
\* does not precede (the sort is stable)
RECURSIVE insertByScore(_, _)
insertByScore(sorted, e) ==
  IF sorted = << >> THEN <<e>>
  ELSE IF e.score - Head(sorted).score < 0
         THEN <<e>> \o sorted
         ELSE <<Head(sorted)>> \o insertByScore(Tail(sorted), e)

\* history.sort((a, b) => a.score - b.score)
RECURSIVE sortByScore(_)
sortByScore(history) ==
  IF history = << >> THEN << >>
  ELSE insertByScore(sortByScore(SubSeq(history, 1, Len(history) - 1)),
                     history[Len(history)])

\* (a cut that keeps the tail of the list)
keepTopLast(history) ==
  IF Len(history) > 5 THEN SubSeq(history, Len(history) - 4, Len(history)) ELSE history

\* the cut to the top 5
keepTop(history) == IF Len(history) > 5 THEN SubSeq(history, 1, 5) ELSE history

saveScore(s, name, score) ==
  LET history == parseStored(s.storage)
      pushed == Append(history, [name |-> name, score |-> score, date |-> today])
  IN [s EXCEPT !.storage = <<stringify(keepTop(sortByScore(pushed)))>>]

\* what the player may have typed into the name field, and its trim()
TypedNames == {"", " ", "KIM"}
trim(typed) == IF typed = " " THEN "" ELSE typed

RECURSIVE sumTimes(_)
sumTimes(times) == IF times = << >> THEN 0 ELSE Head(times) + sumTimes(Tail(times))

handleSaveScore(s, typed) ==
  LET name == IF trim(typed) = "" THEN "ANONYMOUS" ELSE trim(typed)
      totalTime == sumTimes(s.reactionTimes)
  IN [saveScore(s, name, totalTime) EXCEPT !.saveSectionDisplay = "none"]

\* the scores saved so far with one more, ascending
RECURSIVE insertScore(_, _)
insertScore(scores, v) ==
  IF scores = << >> THEN <<v>>
  ELSE IF v < Head(scores) THEN <<v>> \o scores
       ELSE <<Head(scores)>> \o insertScore(Tail(scores), v)

\* ---- events of the reaction-time page; a control can be used while the
\* screen it belongs to is the active one
clickStart ==
  /\ screen = "start"
  /\ \E id \in TimerIds \ timers : becomes(startGame(page, id))
  /\ UNCHANGED <<now, allSaved, omokVars, treeVars>>

\* a pending timeout comes due: its callback runs showTarget
timerFires ==
  /\ \E id \in timers : becomes(showTarget(clearTimeout(page, id)))
  /\ UNCHANGED <<now, allSaved, omokVars, treeVars>>

\* mousedown on the target button, which is displayed
mousedownTarget ==
  /\ screen = "game"
  /\ targetDisplay = "block"
  /\ \E id \in TimerIds \ timers : becomes(handleInput(page, "target-btn", id))
  /\ UNCHANGED <<now, allSaved, omokVars, treeVars>>

\* mousedown on the game area beside the target
mousedownBackground ==
  /\ screen = "game"
  /\ becomes(handleInput(page, "game-area", 0))
  /\ UNCHANGED <<now, allSaved, omokVars, treeVars>>

\* either retry button
clickRetry ==
  /\ screen \in {"gameover", "result"}
  /\ becomes(rtResetGame(page))
  /\ UNCHANGED <<now, allSaved, omokVars, treeVars>>

clickSaveScore ==
  /\ screen = "result"
  /\ saveSectionDisplay = "flex"
  /\ Len(allSaved) < MaxSaves
  /\ \E typed \in TypedNames : becomes(handleSaveScore(page, typed))
  /\ allSaved' = insertScore(allSaved, sumTimes(reactionTimes))
  /\ UNCHANGED <<now, omokVars, treeVars>>

\* a millisecond passes
tick ==
  /\ now < MaxNow
  /\ now' = now + 1
  /\ UNCHANGED <<currentRound, reactionTimes, startTime, timerId, rtGameActive, screen,
                 targetDisplay, roundCounter, saveSectionDisplay, timers, storage,
                 allSaved, omokVars, treeVars>>

NextReaction ==
  \/ clickStart
  \/ timerFires
  \/ mousedownTarget
  \/ mousedownBackground
  \/ clickRetry
  \/ clickSaveScore
  \/ tick

SpecReaction == Init /\ [][NextReaction]_vars

\* the same page with the browser running a timeout's callback once it is due
SpecReactionFair == SpecReaction /\ WF_vars(timerFires)

\* ---- saveScore called on its own
\* number of calls of saveScore in one run
MaxCalls == 6
\* the scores passed range over 0..MaxScore
MaxScore == 2

SavedNames == {"KIM", "ANONYMOUS"}

saveScoreCall(name, score) ==
  /\ Len(allSaved) < MaxCalls
  /\ becomes(saveScore(page, name, score))
  /\ allSaved' = insertScore(allSaved, score)
  /\ UNCHANGED <<now, omokVars, treeVars>>

NextLeaderboard == \E name \in SavedNames, score \in 0..MaxScore : saveScoreCall(name, score)

SpecLeaderboard == Init /\ [][NextLeaderboard]_vars

\* ------------------------------------------------ tree-diagram generator
\* config of the layout
nodeWidth == 150
nodeHeight == 50
horizontalGap == 50
verticalGap == 80

\* number of nodes of the trees typed into the textarea
MaxNodes == 7

\* The textarea holds <<kind, tree>>: text that is no JSON ("invalid"), the
\* JSON text null ("null"), or the JSON text of a node object ("node"). A node
\* is written as the sequence of its children, each a node again; its label
\* takes no part in the layout.
JSONparses(text) == text[1] # "invalid"
JSONparse(text) == IF text[1] = "null" THEN <<"null">> ELSE <<"object", text[2]>>

RECURSIVE countNodes(_), countFirst(_, _)
\* nodes of the first j children of a node, and of a node with its subtree
countFirst(children, j) ==
  IF j = 0 THEN 0 ELSE countNodes(children[j]) + countFirst(children, j - 1)
countNodes(node) == 1 + countFirst(node, Len(node))

\* -1 stands for the parentId null of the root
NoParent == 0 - 1

RECURSIVE traverse(_, _, _, _), traverseChildren(_, _, _, _, _)
\* the nodes pushed while children j.. of node parentId are traversed; idCounter
\* stands at nextId
traverseChildren(children, j, depth, parentId, nextId) ==
  IF j > Len(children)
    THEN << >>
    ELSE LET pushed == traverse(children[j], depth, parentId, nextId)
         IN pushed \o traverseChildren(children, j + 1, depth, parentId, nextId + Len(pushed))

\* traverse(node, depth, parentId) with idCounter at id: the nodes it pushes, in
\* the order pushed; children are kept by their ids, width is unset (0)
traverse(node, depth, parentId, id) ==
  LET below == traverseChildren(node, 1, depth + 1, id, id + 1)
      mine == SelectSeq(below, LAMBDA n : n.parentId = id)
  IN << [id |-> id, parentId |-> parentId, depth |-> depth, x |-> 0,
         y |-> depth * (nodeHeight + verticalGap),
         children |-> [k \in 1..Len(mine) |-> mine[k].id], width |-> 0] >> \o below

\* the node with the given id in the nodes array
nodeAt(nodes, id) == nodes[id + 1]

RECURSIVE calculateWidth(_, _), childrenWidth(_, _, _)
\* childrenWidth as the forEach of calculateWidth accumulates it from child j on
childrenWidth(nodes, kids, j) ==
  IF j > Len(kids)
    THEN 0
    ELSE calculateWidth(nodes, kids[j])
           + (IF j < Len(kids) THEN horizontalGap ELSE 0)
           + childrenWidth(nodes, kids, j + 1)

\* the value calculateWidth returns for node id
calculateWidth(nodes, id) ==
  IF Len(nodeAt(nodes, id).children) = 0
    THEN nodeWidth
    ELSE LET w == childrenWidth(nodes, nodeAt(nodes, id).children, 1)
         IN IF nodeWidth > w THEN nodeWidth ELSE w

\* node.width as calculateWidth sets it
widthField(nodes, id) ==
  IF Len(nodeAt(nodes, id).children) = 0
    THEN nodeWidth
    ELSE childrenWidth(nodes, nodeAt(nodes, id).children, 1)

\* the nodes array after calculateWidth(rootNode)
withWidths(nodes) ==
  [k \in 1..Len(nodes) |-> [nodes[k] EXCEPT !.width = widthField(nodes, k - 1)]]

\* (children put side by side without the gap)
advanceNoGap(currentX, child) == currentX + child.width

\* currentX after a child has been placed
advance(currentX, child) == currentX + child.width + horizontalGap

\* x of a node whose width starts at startX; every width is a sum of node
\* widths and gaps, so both halves are whole numbers
centred(startX, node) == startX + (node.width \div 2) - (nodeWidth \div 2)

RECURSIVE assignPositions(_, _, _), assignChildren(_, _, _, _)
\* the forEach of assignPositions from child j on
assignChildren(nodes, kids, j, currentX) ==
  IF j > Len(kids)
    THEN nodes
    ELSE LET positioned == assignPositions(nodes, kids[j], currentX)
         IN assignChildren(positioned, kids, j + 1,
                           advance(currentX, nodeAt(positioned, kids[j])))

assignPositions(nodes, id, startX) ==
  LET here == [nodes EXCEPT ![id + 1].x = centred(startX, nodeAt(nodes, id))]
  IN assignChildren(here, nodeAt(nodes, id).children, 1, startX)

\* the largest member of a non-empty set of numbers
maxOf(S) == CHOOSE m \in S : \A v \in S : v <= m

calculateLayout(rootData) ==
  LET nodes == assignPositions(withWidths(traverse(rootData, 0, NoParent, 0)), 0, 0)
  IN [width |-> maxOf({ nodes[k].x + nodeWidth : k \in 1..Len(nodes) }),
      height |-> maxOf({ nodes[k].y + nodeHeight : k \in 1..Len(nodes) }),
      nodes |-> nodes]

\* generateTree: the svg element is kept as its two sizes and the nodes drawn
\* into it, each at translate(x, y); the connectors follow from the nodes.
\* JSON.parse throws on text that is no JSON; traverse throws on null when it
\* reads node.label, after the container has been emptied.
generateTree ==
  /\ IF ~JSONparses(menuInput)
       THEN /\ alerted' = TRUE
            /\ UNCHANGED svgContainer
       ELSE LET data == JSONparse(menuInput)
            IN IF data[1] = "null"
                 THEN /\ svgContainer' = << >>
                      /\ alerted' = TRUE
                 ELSE LET treeLayout == calculateLayout(data[2])
                      IN /\ svgContainer' = << [width |-> treeLayout.width + 100,
                                                height |-> treeLayout.height + 100,
                                                nodes |-> treeLayout.nodes] >>
                         /\ alerted' = FALSE
  /\ UNCHANGED <<menuInput, omokVars, reactionVars>>

\* ---- the user's edits of the textarea
RECURSIVE lastPathLength(_), withChild(_, _)
\* number of nodes below the root on the path along last children
lastPathLength(node) == IF Len(node) = 0 THEN 0 ELSE 1 + lastPathLength(node[Len(node)])

\* the tree with one more leaf, written behind the children of the node that
\* lies k steps down the path along last children
withChild(node, k) ==
  IF k = 0
    THEN Append(node, << >>)
    ELSE [node EXCEPT ![Len(node)] = withChild(node[Len(node)], k - 1)]

typeChild ==
  /\ menuInput[1] = "node"
  /\ countNodes(menuInput[2]) < MaxNodes
  /\ \E k \in 0..lastPathLength(menuInput[2]) :
        menuInput' = <<"node", withChild(menuInput[2], k)>>
  /\ UNCHANGED <<svgContainer, alerted, omokVars, reactionVars>>

\* the textarea is overwritten by null or by text that is no JSON
typeOver ==
  /\ \E kind \in {"null", "invalid"} : menuInput' = <<kind, << >> >>
  /\ UNCHANGED <<svgContainer, alerted, omokVars, reactionVars>>

NextTree ==
  \/ generateTree
  \/ typeChild
  \/ typeOver

SpecTree == Init /\ [][NextTree]_vars

\* ----------------------------------------------------------------- claims
\* number of consecutive cells holding player, from (r, c) on in direction
\* (dr, dc), with no limit on the walk
RECURSIVE runFrom(_, _, _, _, _, _)
runFrom(b, r, c, dr, dc, player) ==
  IF r >= 0 /\ r < BOARD_SIZE /\ c >= 0 /\ c < BOARD_SIZE /\ b[r][c] = player
    THEN 1 + runFrom(b, r + dr, c + dc, dr, dc, player)
    ELSE 0

\* length of the maximal run of player through (r, c) along axis d
maxRun(b, r, c, d, player) ==
  runFrom(b, r, c, directions[d][1], directions[d][2], player)
    + runFrom(b, r - directions[d][1], c - directions[d][2],
              -directions[d][1], -directions[d][2], player)

Axes == 1..4

\* scan of the whole board: some stone starts a run of five or more on an axis
fiveAnywhere(b) ==
  \E r \in Idx : \E c \in Idx :
     /\ b[r][c] # 0
     /\ \E d \in Axes : runFrom(b, r, c, directions[d][1], directions[d][2], b[r][c]) >= 5

\* cell and acceptance condition of a click, as the claims state them
rowOf(clk) == clickIndex(clk[2])
colOf(clk) == clickIndex(clk[1])
inBounds(r, c) == r \in Idx /\ c \in Idx
accepted(clk) ==
  gameActive /\ inBounds(rowOf(clk), colOf(clk)) /\ board[rowOf(clk)][colOf(clk)] = 0
other(p) == 3 - p

\* C1: for a stone of player p at (r, c), checkWin(r, c, p) is true exactly when
\* on at least one of the four axes the maximal run of p through (r, c) has
\* length 5 or more.
Thm_C1 ==
  query # << >> =>
    (query[4] <=> \E d \in Axes : maxRun(board, query[1], query[2], d, query[3]) >= 5)

\* checkWin answered true for a stone inside a run of six
Wit_C1 ==
  /\ query # << >>
  /\ query[4]
  /\ \E d \in Axes : maxRun(board, query[1], query[2], d, query[3]) >= 6

\* C2: in every reachable state the game is in progress exactly when a scan of
\* the whole board finds no run of five or more same-player stones.
Thm_C2 == gameActive <=> ~fiveAnywhere(board)

\* a game that was won, with the run on the board
Wit_C2 == ~gameActive /\ fiveAnywhere(board) /\ lastEvent = "handleClick"

\* the stone counts of a board
count(b, player) == Cardinality({ rc \in Idx \X Idx : b[rc[1]][rc[2]] = player })

\* C3: an accepted move (game in progress, coordinates in bounds, target cell
\* Empty) changes exactly one cell: the target goes from Empty to the mark of
\* the player whose turn it was, every other cell keeps its value.
Thm_C3 ==
  [][\A clk \in ShortClicks :
       (accepted(clk) /\ handleClick(clk[1], clk[2])) =>
          /\ board[rowOf(clk)][colOf(clk)] = 0
          /\ board'[rowOf(clk)][colOf(clk)] = currentPlayer
          /\ board' = [board EXCEPT ![rowOf(clk)][colOf(clk)] = board'[rowOf(clk)][colOf(clk)]]]_vars

\* White's first stone has just been placed next to Black's
Wit_C3 ==
  /\ lastEvent = "handleClick"
  /\ count(board, 1) = 1
  /\ count(board, 2) = 1
  /\ currentPlayer = 1

\* a click the claims call rejected: occupied cell, out of bounds, or game over
rejected(clk) ==
  \/ ~gameActive
  \/ ~inBounds(rowOf(clk), colOf(clk))
  \/ board[rowOf(clk)][colOf(clk)] # 0

freshGame == board = EmptyBoard /\ currentPlayer = 1 /\ gameActive

\* C5: once a move has won, every later move is rejected whatever its
\* coordinates (board, current player and active flag unchanged); the only
\* step that leaves the won state is resetGame.
Thm_C5 ==
  [][~gameActive =>
       /\ \A clk \in ShortClicks :
             handleClick(clk[1], clk[2]) => UNCHANGED <<board, currentPlayer, gameActive>>
       /\ gameActive' => (resetGame /\ freshGame')]_vars

\* a won game with the modal up
Wit_C5 == ~gameActive /\ ~modalHidden /\ lastEvent = "handleClick"

\* C6: after an accepted move that does not win the active player is the other
\* player; after a rejected move the active player is unchanged.
Thm_C6 ==
  [][/\ currentPlayer' = other(currentPlayer)
          \/ ~(gameActive' /\ \E clk \in ShortClicks : accepted(clk) /\ handleClick(clk[1], clk[2]))
     /\ currentPlayer' = currentPlayer
          \/ ~(\E clk \in ShortClicks : rejected(clk) /\ handleClick(clk[1], clk[2]))]_vars

\* Black has moved once and it is White's turn
Wit_C6 ==
  /\ lastEvent = "handleClick"
  /\ gameActive
  /\ currentPlayer = 2
  /\ count(board, 1) = 1
  /\ count(board, 2) = 0

\* C7: from every reachable state, reset yields all cells Empty, active player
\* Black (1) and an active game.
Thm_C7 ==
  [][resetGame =>
       /\ \A r \in Idx, c \in Idx : board'[r][c] = 0
       /\ currentPlayer' = 1
       /\ gameActive']_vars

\* resetGame has just run
Wit_C7 == lastEvent = "resetGame" /\ board = EmptyBoard /\ modalHidden

\* C8: no step other than reset changes a non-Empty cell.
Thm_C8 ==
  [][(board' # board /\ ~resetGame) =>
       \A r \in Idx, c \in Idx : board[r][c] # 0 => board'[r][c] = board[r][c]]_vars

\* a game in progress with stones of both players on the board
Wit_C8 == lastEvent = "handleClick" /\ gameActive /\ count(board, 1) >= 2 /\ count(board, 2) >= 2

\* C9: a run of six or more same-player stones counts as a win like a run of
\* five: whenever the board holds one, the move that completed it has ended the
\* game (active flag cleared, modal shown) with its owner as the winner.
Thm_C9 ==
  \A r \in Idx : \A c \in Idx :
     board[r][c] # 0 =>
        \A d \in Axes :
           runFrom(board, r, c, directions[d][1], directions[d][2], board[r][c]) >= 6
             => (~gameActive /\ ~modalHidden /\ currentPlayer = board[r][c])

\* a game won with a run of six on the board
Wit_C9 ==
  /\ ~gameActive
  /\ lastEvent = "handleClick"
  /\ \E r \in Idx, c \in Idx, d \in Axes :
        board[r][c] # 0
          /\ runFrom(board, r, c, directions[d][1], directions[d][2], board[r][c]) >= 6

\* the two placement sequences of Black
HSeq == << <<7, 3>>, <<7, 4>>, <<7, 5>>, <<7, 6>>, <<7, 7>> >>
DSeq == << <<0, 0>>, <<1, 1>>, <<2, 2>>, <<3, 3>>, <<4, 4>> >>
\* Black's stones are exactly the cells of S
blackIs(S) == \A r \in Idx, c \in Idx : (board[r][c] = 1) <=> (<<r, c>> \in S)

\* C10: when Black's stones are the first k of (7,3),(7,4),(7,5),(7,6),(7,7),
\* or of (0,0),(1,1),(2,2),(3,3),(4,4), the game is in progress for k < 5 and
\* won by Black (modal shown, turn not passed) for k = 5.
Thm_C10 ==
  \A seq \in {HSeq, DSeq} : \A k \in 1..5 :
     blackIs({ seq[i] : i \in 1..k }) =>
        IF k < 5 THEN gameActive /\ modalHidden
                 ELSE ~gameActive /\ ~modalHidden /\ currentPlayer = 1

\* Black has won with exactly the five stones of the horizontal sequence
Wit_C10 ==
  /\ blackIs({ HSeq[i] : i \in 1..5 })
  /\ count(board, 2) = 4
  /\ ~gameActive

\* a move of player p at the cell of click clk: handleClick receives the mouse
\* event only, the player is not among its inputs
moveFor(p, clk) == handleClick(clk[1], clk[2])

ownsFive(b, p) ==
  \E r \in Idx : \E c \in Idx :
     /\ b[r][c] = p
     /\ \E d \in Axes : runFrom(b, r, c, directions[d][1], directions[d][2], p) >= 5

\* stones of Black minus stones of White when player p has placed the last stone
leadAfter(p) == IF p = 1 THEN 1 ELSE 0

\* C12: in every reachable state with the active flag cleared the current
\* player is the winner: the turn was not passed by the winning move, so the
\* current player owns a run of five or more, has placed the last stone, and
\* the modal is shown; the other player owns no such run.
Thm_C12 ==
  ~gameActive =>
     /\ ownsFive(board, currentPlayer)
     /\ ~ownsFive(board, other(currentPlayer))
     /\ count(board, 1) - count(board, 2) = leadAfter(currentPlayer)
     /\ ~modalHidden

\* White has won
Wit_C12 == ~gameActive /\ currentPlayer = 2 /\ ownsFive(board, 2)

\* C14: the number of Black stones minus the number of White stones is 0 or 1,
\* and while the game is in progress the current player is Black exactly when
\* the two counts are equal.
Thm_C14 ==
  LET blacks == count(board, 1)
      whites == count(board, 2)
  IN /\ blacks - whites \in {0, 1}
     /\ gameActive => (currentPlayer = 1 <=> blacks = whites)

\* a game in progress with three stones of each player, Black to move
Wit_C14 ==
  /\ gameActive
  /\ currentPlayer = 1
  /\ count(board, 1) = 3
  /\ count(board, 2) = 3

\* the round is waiting for its target
waiting == screen = "game" /\ ~rtGameActive

\* C13: in every state in which a mousedown beside the target can arrive (the
\* game screen is shown, the target visible or still to come), handleInput
\* ends the game at once: the game-over screen is shown, gameActive is false,
\* and the round does not continue (no timeout stays pending, round and times
\* keep their values).
Thm_C13 ==
  screen = "game" =>
     LET after == handleInput(page, "game-area", 0)
     IN /\ after.screen = "gameover"
        /\ ~after.gameActive
        /\ after.timers = {}
        /\ after.currentRound = currentRound
        /\ after.reactionTimes = reactionTimes

\* the second round was ended by a click during its delay
Wit_C13 ==
  /\ screen = "gameover"
  /\ targetDisplay = "none"
  /\ currentRound = 2
  /\ Len(reactionTimes) = 1

\* C15: the result screen is shown only with exactly MAX_ROUNDS times recorded
\* in the current game; currentRound never exceeds MAX_ROUNDS; while a round
\* is pending the number of recorded times is currentRound - 1.
Thm_C15 ==
  /\ currentRound <= MAX_ROUNDS
  /\ screen = "result" => (Len(reactionTimes) = MAX_ROUNDS /\ currentRound = MAX_ROUNDS)
  /\ screen = "game" => Len(reactionTimes) = currentRound - 1

\* a second game has been played to its end
Wit_C15 ==
  /\ screen = "result"
  /\ Len(reactionTimes) = MAX_ROUNDS
  /\ saveSectionDisplay = "flex"
  /\ allSaved # << >>

\* C16: gameActive is true only while the game screen is shown and the target
\* is displayed; a time is recorded only by a step taken with gameActive true,
\* one at a time, and that step ends the round (the next round starts or the
\* game is finished), so no round records more than one time.
Thm_C16 ==
  /\ [](rtGameActive => (screen = "game" /\ targetDisplay = "block"))
  /\ [](Len(reactionTimes) <= currentRound)
  /\ [][(reactionTimes' # reactionTimes /\ reactionTimes' # << >>) =>
          /\ rtGameActive
          /\ ~rtGameActive'
          /\ Len(reactionTimes') = Len(reactionTimes) + 1
          /\ \/ currentRound' = currentRound + 1 /\ timers' # {}
             \/ currentRound = MAX_ROUNDS /\ screen' = "result"]_vars

\* the target of the third round is up, two times recorded
Wit_C16 ==
  /\ rtGameActive
  /\ targetDisplay = "block"
  /\ currentRound = 3
  /\ Len(reactionTimes) = 2

\* C17: at most one show-target timeout is pending, it is the one of the round
\* that is waiting, and none is pending once the game has ended: when the game
\* screen is not shown nothing can run showTarget and gameActive is false.
Thm_C17 ==
  /\ Cardinality(timers) <= 1
  /\ timers # {} => (timers = {timerId} /\ waiting /\ targetDisplay = "none")
  /\ screen # "game" => (timers = {} /\ ~rtGameActive)

\* a game ended during a delay and its timeout was cancelled
Wit_C17 ==
  /\ screen = "gameover"
  /\ timerId # 0
  /\ timers = {}
  /\ targetDisplay = "none"
  /\ currentRound = 1

\* C18: a round that is waiting has its timeout pending, and leads to the
\* target being shown or to game over.
Thm_C18 ==
  /\ [](waiting => timers # {})
  /\ waiting ~> (rtGameActive \/ screen = "gameover")

\* the target of the last round has been shown
Wit_C18 ==
  /\ rtGameActive
  /\ currentRound = MAX_ROUNDS
  /\ timers = {}

\* the leaderboard as renderLeaderboard reads it
leaderboard == parseStored(storage)

\* the smaller of two numbers
least(a, b) == IF a < b THEN a ELSE b

\* C19: the stored leaderboard has at most 5 entries, is sorted by ascending
\* score, and its scores are the (up to) 5 lowest of all scores ever saved.
Thm_C19 ==
  /\ Len(leaderboard) <= 5
  /\ \A i \in 1..Len(leaderboard) : \A j \in 1..Len(leaderboard) :
        i < j => leaderboard[i].score <= leaderboard[j].score
  /\ Len(leaderboard) = least(5, Len(allSaved))
  /\ \A i \in 1..Len(leaderboard) : leaderboard[i].score = allSaved[i]

\* six scores were saved, not all equal: the list is full and the highest of
\* them is not on it
Wit_C19 ==
  /\ Len(allSaved) = 6
  /\ Len(leaderboard) = 5
  /\ allSaved[6] > leaderboard[5].score
  /\ leaderboard[1].score < leaderboard[5].score

\* the nodes of the diagram in the container
drawn == svgContainer[1].nodes

\* node i is node a or lies below it
RECURSIVE isBelow(_, _, _)
isBelow(nodes, i, a) ==
  IF i = a THEN TRUE
  ELSE IF nodes[i + 1].parentId = NoParent THEN FALSE
       ELSE isBelow(nodes, nodes[i + 1].parentId, a)

\* least and largest x among the nodes of the subtree of a
subtreeXs(nodes, a) == { nodes[k].x : k \in { k \in 1..Len(nodes) : isBelow(nodes, k - 1, a) } }
leastOf(S) == CHOOSE m \in S : \A v \in S : m <= v

distance(a, b) == IF a < b THEN b - a ELSE a - b

\* C20: in the layout of every tree no two rectangles overlap: two distinct
\* nodes of the same depth have x coordinates at least nodeWidth +
\* horizontalGap apart, every node has y = depth * (nodeHeight + verticalGap),
\* and every node is centred over the span of its subtree.
Thm_C20 ==
  svgContainer # << >> =>
     /\ \A i \in 1..Len(drawn) : \A j \in 1..Len(drawn) :
           i # j =>
              /\ drawn[i].depth = drawn[j].depth =>
                    distance(drawn[i].x, drawn[j].x) >= nodeWidth + horizontalGap
              /\ \/ distance(drawn[i].x, drawn[j].x) >= nodeWidth
                 \/ distance(drawn[i].y, drawn[j].y) >= nodeHeight
     /\ \A i \in 1..Len(drawn) :
           /\ drawn[i].y = drawn[i].depth * (nodeHeight + verticalGap)
           /\ 2 * drawn[i].x =
                 leastOf(subtreeXs(drawn, i - 1)) + maxOf(subtreeXs(drawn, i - 1))

\* a diagram with two nodes of one depth under different parents
Wit_C20 ==
  /\ svgContainer # << >>
  /\ \E i \in 1..Len(drawn) : \E j \in 1..Len(drawn) :
        /\ drawn[i].depth = drawn[j].depth
        /\ drawn[i].parentId # drawn[j].parentId
        /\ Len(drawn[i].children) > 0

\* C21: whenever generateTree ends in its error path (the alert), the diagram
\* shown in the container before is left unchanged.
CE_C21 ==
  [][(generateTree /\ alerted') => svgContainer' = svgContainer]_vars

====
